---- MODULE Spec2Model ----
(***************************************************************************)
(* Multi-tenant WhatsApp session manager (barber-bot).                     *)
(*                                                                         *)
(* The repository holds three variants of the multi-tenant server:         *)
(*   "server" : src/server.ts                                              *)
(*   "p1"     : src/unnamed/part_001                                       *)
(*   "p0"     : src/unnamed/part_000, second program (lines 176-400)       *)
(* The variable `variant` is fixed by Init and selects whose code the      *)
(* actions follow where the variants differ.                               *)
(*                                                                         *)
(* A transport handle (the object makeWASocket returns) is a record        *)
(*   conn      : what the transport is doing ("connecting", "open",        *)
(*               "closed"); ws.isClosed is conn = "closed"                 *)
(*   user      : sock.user is set                                          *)
(*   destroyed : sock.destroyed is truthy                                  *)
(* The handlers a handle's events run close over instanceId only, so a     *)
(* handle that is no longer in `sessions` still acts on its tenant's       *)
(* entries; such handles are counted in `strays` while the transport       *)
(* keeps them alive.                                                       *)
(***************************************************************************)
EXTENDS Integers, Sequences, FiniteSets, TLC

\* ---------------------------------------------------------------- bounds
\* each bounds a total over all tenants
MaxSocks == 2     \* makeWASocket calls
MaxPending == 2   \* startSession calls suspended at their await
MaxTimers == 1    \* pending setTimeout reconnects
MaxWait == 1      \* qr-code requests that have not answered yet
MaxQr == 1        \* distinct pairing payloads
MaxLogout == 1    \* logout requests suspended at await sock.logout()
MaxHooks == 2     \* messages.upsert handlers suspended at await axios.post
MaxBatch == 2     \* messages in one messages.upsert event
MaxRaceSocks == 3 \* makeWASocket calls in the reconnect races (SpecRace)
MaxCodes == 2     \* distinct pairing payloads in the pairing runs (SpecQr)

Variants == {"server", "p1", "p0"}
Tenants == {"shop-1", "shop-2"}
Callers == {"qr", "bg"}
LiveConn == {"connecting", "open"}

\* an id that ends in the path separator: a registry key of its own that
\* path.join('auth_info_baileys', instanceId) maps to the folder of the id
\* without the separator
SlashId == "shop-1/"

\* the folder under auth_info_baileys that path.join gives an id
Folder(t) == IF t = SlashId THEN "shop-1" ELSE t

\* names found under auth_info_baileys that are not tenants: part_000's
\* startSession returns at once for both, part_000's boot loop skips both,
\* part_001's boot loop skips .DS_Store, server.ts knows neither
ReservedNames == {"lost+found", ".DS_Store"}

VARIABLES
    variant,       \* which program of the repository runs
    sessions,      \* Map instanceId -> sock
    strays,        \* live handles no longer (or never again) in sessions
    qrCodes,       \* Map instanceId -> qr (0: no entry)
    creds,         \* auth_info_baileys/<instanceId>: "none", "dir", "saved"
    pendingStart,  \* startSession calls suspended at await useMultiFileAuthState
    timers,        \* setTimeout(() => startSession(instanceId), 3000) pending
    qrWait,        \* qr-code requests in their setTimeout sleep
    pendingLogout, \* logout requests suspended at await sock.logout()
    made,          \* makeWASocket invocations per tenant
    webhookUrl,    \* WEBHOOK_URL is set
    hooks,         \* messages.upsert handlers suspended at await axios.post
    ev             \* the step just taken and, for a request, its response

vars == <<variant, sessions, strays, qrCodes, creds, pendingStart, timers,
          qrWait, pendingLogout, made, webhookUrl, hooks, ev>>

NoSock == [conn |-> "none", user |-> FALSE, destroyed |-> FALSE]
NewSock == [conn |-> "connecting", user |-> FALSE, destroyed |-> FALSE]

\* a WhatsApp id user@server; NoJid: the field is undefined
NoJid == [user |-> "", server |-> ""]
NoKey == [remoteJid |-> NoJid, participant |-> NoJid]

\* op: the step; id: its tenant; code: the HTTP status answered (0: none);
\* flag: send-text reached sock.sendMessage; status and qr-code answered
\* connected: true; reset and logout found the tenant in sessions; a close
\* event's handler called startSession itself;
\* sender, key: for a post to the webhook, the payload's sender ("": none)
\* and the key of the message posted; qr, stale: for a connection.update,
\* the pairing code it carried (0: none) and whether the handle that raised
\* it was no longer the one in sessions
Ev(op, id, code, flag) ==
    [op |-> op, id |-> id, code |-> code, flag |-> flag,
     sender |-> "", key |-> NoKey, qr |-> 0, stale |-> FALSE]

\* sessions.has(instanceId)
Has(sess, t) == sess[t].conn # "none"

\* the liveness test at the head of startSession
IsLive(s) ==
    IF variant = "server" THEN ~s.destroyed ELSE s.conn # "closed"

\* the ids startSession ignores, and the directories the boot loop skips
Blocklist == IF variant = "p0" THEN ReservedNames ELSE {}
BootSkips ==
    CASE variant = "p0" -> ReservedNames
      [] variant = "p1" -> {".DS_Store"}
      [] OTHER -> {}

\* startSession goes past its early returns
Proceeds(sess, t) == t \notin Blocklist /\ ~(Has(sess, t) /\ IsLive(sess[t]))

RECURSIVE SumOver(_, _)
SumOver(f, S) ==
    IF S = {} THEN 0
    ELSE LET x == CHOOSE y \in S : TRUE IN f[x] + SumOver(f, S \ {x})

\* totals over all tenants, for the bounds
Total(f) == SumOver(f, DOMAIN f)
PendCount == SumOver([t \in DOMAIN pendingStart |->
                         pendingStart[t]["qr"] + pendingStart[t]["bg"]],
                     DOMAIN pendingStart)

\* handles of tenant t the transport keeps alive
LiveHandles(t) ==
    (IF sessions[t].conn \in LiveConn THEN 1 ELSE 0)
        + strays[t]["connecting"] + strays[t]["open"]

\* the handle sess[t] leaves the registry: it stays a live stray unless closed
Unregister(sess, str, t) ==
    IF sess[t].conn \in LiveConn
    THEN [str EXCEPT ![t][sess[t].conn] = @ + 1]
    ELSE str

\* startSession up to its first await, called by c with registry sess
PendAfterStart(sess, t, c) ==
    IF Proceeds(sess, t)
    THEN [pendingStart EXCEPT ![t][c] = @ + 1]
    ELSE pendingStart

CredsAfterStart(sess, cr, t) ==
    IF Proceeds(sess, t) /\ cr[Folder(t)] = "none"
    THEN [cr EXCEPT ![Folder(t)] = "dir"]
    ELSE cr

CanStart(sess, t) == Proceeds(sess, t) => PendCount < MaxPending

\* ------------------------------------------------------------------ Init
\* The server has just been loaded: for every directory found under
\* auth_info_baileys a startSession call is suspended at its await.
\* ids: the instance ids the run's requests and directories use.
InitOver(ids) ==
    /\ variant \in Variants
    /\ sessions = [t \in ids |-> NoSock]
    /\ strays = [t \in ids |-> [k \in LiveConn |-> 0]]
    /\ qrCodes = [t \in ids |-> 0]
    /\ creds \in [{Folder(t) : t \in ids} -> {"none", "saved"}]
    /\ pendingStart = [t \in ids |->
           [c \in Callers |->
               IF c = "bg" /\ t = Folder(t) /\ creds[t] # "none" /\ t \notin BootSkips
               THEN 1 ELSE 0]]
    /\ timers = [t \in ids |-> 0]
    /\ qrWait = [t \in ids |-> 0]
    /\ pendingLogout = [t \in ids |-> 0]
    /\ made = [t \in ids |-> 0]
    /\ hooks = <<>>
    /\ ev = Ev("init", CHOOSE t \in ids : TRUE, 0, FALSE)

InitSessions == InitOver(Tenants)

Init == InitSessions /\ webhookUrl = TRUE

\* ---------------------------------------------------------- startSession
\* GET /v1/instance/qr-code up to its first suspension
QrRequest(t) ==
    /\ Total(qrWait) + SumOver([x \in DOMAIN pendingStart |-> pendingStart[x]["qr"]],
                                DOMAIN pendingStart) < MaxWait
    /\ IF ~Has(sessions, t) /\ Proceeds(sessions, t)
       THEN /\ PendCount < MaxPending
            /\ pendingStart' = PendAfterStart(sessions, t, "qr")
            /\ creds' = CredsAfterStart(sessions, creds, t)
            /\ UNCHANGED qrWait
       ELSE /\ qrWait' = [qrWait EXCEPT ![t] = @ + 1]
            /\ UNCHANGED <<pendingStart, creds>>
    /\ ev' = Ev("qr-request", t, 0, FALSE)
    /\ UNCHANGED <<webhookUrl, hooks, variant, sessions, strays, qrCodes, timers, pendingLogout, made>>

\* startSession from its await to its return: makeWASocket, sessions.set;
\* n bounds the makeWASocket calls of a run
StartFinishUpTo(t, c, n) ==
    /\ pendingStart[t][c] > 0
    /\ Total(made) < n
    /\ pendingStart' = [pendingStart EXCEPT ![t][c] = @ - 1]
    /\ sessions' = [sessions EXCEPT ![t] = NewSock]
    /\ strays' = Unregister(sessions, strays, t)
    /\ made' = [made EXCEPT ![t] = @ + 1]
    /\ qrWait' = IF c = "qr" THEN [qrWait EXCEPT ![t] = @ + 1] ELSE qrWait
    /\ ev' = Ev("makeWASocket", t, 0, FALSE)
    /\ UNCHANGED <<webhookUrl, hooks, variant, qrCodes, creds, timers, pendingLogout>>

StartFinish(t, c) == StartFinishUpTo(t, c, MaxSocks)

\* the failed call has registered a handle all the same
StartFailRegistered(t, c) ==
    /\ pendingStart[t][c] > 0
    /\ pendingStart' = [pendingStart EXCEPT ![t][c] = @ - 1]
    /\ sessions' = [sessions EXCEPT ![t] = NewSock]
    /\ ev' = Ev("start-failed", t, 0, FALSE)
    /\ UNCHANGED <<webhookUrl, hooks, variant, strays, qrCodes, creds, timers,
                   qrWait, pendingLogout, made>>

\* startSession from its await to a throw: useMultiFileAuthState rejects or
\* makeWASocket throws, so the call rejects before sessions.set. Nothing
\* catches the rejection: a qr-code request that awaited the call ends
\* there and sends no answer.
StartFail(t, c) ==
    /\ pendingStart[t][c] > 0
    /\ pendingStart' = [pendingStart EXCEPT ![t][c] = @ - 1]
    /\ ev' = Ev("start-failed", t, 0, FALSE)
    /\ UNCHANGED <<webhookUrl, hooks, variant, sessions, strays, qrCodes, creds,
                   timers, qrWait, pendingLogout, made>>

\* ------------------------------------------------------ connection.update
\* what the transport reports: a pairing code, an open or a close
QrUpdates(n) == {[qr |-> q, connection |-> "none", loggedOut |-> FALSE] : q \in 1..n}

Updates ==
    QrUpdates(MaxQr)
    \cup {[qr |-> 0, connection |-> "open", loggedOut |-> FALSE]}
    \cup {[qr |-> 0, connection |-> "close", loggedOut |-> b] : b \in BOOLEAN}

\* the emitting handle as the transport leaves it when it raises u
SockAfter(s, u, d) ==
    CASE u.connection = "open" -> [conn |-> "open", user |-> TRUE, destroyed |-> FALSE]
      [] u.connection = "close" -> [s EXCEPT !.conn = "closed", !.destroyed = d]
      [] OTHER -> s

StraysAfter(str, t, k, u) ==
    CASE u.connection = "open" ->
             [str EXCEPT ![t]["connecting"] = @ - 1, ![t]["open"] = @ + 1]
      [] u.connection = "close" -> [str EXCEPT ![t][k] = @ - 1]
      [] OTHER -> str

\* shouldReconnect / reason !== DisconnectReason.loggedOut
ShouldReconnect(u) == u.connection = "close" /\ ~u.loggedOut

\* a cache that keeps the first code it was given
QrSetKeepsFirst(qr, t, u) ==
    IF u.qr # 0 /\ qr[t] = 0 THEN [qr EXCEPT ![t] = u.qr] ELSE qr

\* if (qr) qrCodes.set(instanceId, qr)
QrSet(qr, t, u) == IF u.qr # 0 THEN [qr EXCEPT ![t] = u.qr] ELSE qr

\* qrCodes after the handler: deleted on a logged-out close and on open
UpdateQrCodes(qr, t, u) ==
    IF (u.connection = "close" /\ u.loggedOut) \/ u.connection = "open"
    THEN [QrSet(qr, t, u) EXCEPT ![t] = 0]
    ELSE QrSet(qr, t, u)

\* sessions after the handler: sessions.delete on a logged-out close
UpdateSessions(sess, t, u) ==
    IF u.connection = "close" /\ u.loggedOut
    THEN [sess EXCEPT ![t] = NoSock]
    ELSE sess

\* the credential directory after the handler
UpdateCreds(sess, cr, t, u) ==
    CASE u.connection = "close" /\ u.loggedOut ->
             IF variant = "server" THEN cr ELSE [cr EXCEPT ![Folder(t)] = "none"]
      [] ShouldReconnect(u) /\ variant = "server" -> CredsAfterStart(sess, cr, t)
      [] OTHER -> cr

\* server.ts calls startSession inside the handler
UpdatePending(sess, t, u) ==
    IF ShouldReconnect(u) /\ variant = "server"
    THEN PendAfterStart(sess, t, "bg")
    ELSE pendingStart

\* part_000 and part_001 defer it with setTimeout
UpdateTimers(tm, t, u) ==
    IF ShouldReconnect(u) /\ variant # "server"
    THEN [tm EXCEPT ![t] = @ + 1]
    ELSE tm

\* server.ts calls startSession inside the close handler; part_000 and
\* part_001 hand the call to setTimeout
CallsStartInline(u) == variant = "server" /\ ShouldReconnect(u)

UpdateOp(u) ==
    CASE u.connection = "open" -> "open"
      [] u.connection = "close" /\ u.loggedOut -> "close-logout"
      [] u.connection = "close" -> "close"
      [] OTHER -> "qr"

\* a handle of tenant t raises connection.update: src is "reg" for the handle
\* in sessions, or the kind of a stray; d is the value sock.destroyed has
\* once the transport has closed (read by server.ts alone)
ConnectionUpdate(t, src, u, d) ==
    LET from == IF src = "reg" THEN sessions[t].conn ELSE src
        sess1 == IF src = "reg"
                 THEN [sessions EXCEPT ![t] = SockAfter(@, u, d)]
                 ELSE sessions
        str1 == IF src = "reg" THEN strays ELSE StraysAfter(strays, t, src, u)
    IN  /\ from \in LiveConn
        /\ src # "reg" => strays[t][src] > 0
        /\ (u.qr # 0 \/ u.connection = "open") => from = "connecting"
        /\ d => (u.connection = "close" /\ src = "reg" /\ variant = "server")
        /\ ShouldReconnect(u) =>
               IF variant = "server" THEN CanStart(sess1, t)
               ELSE Total(timers) < MaxTimers
        /\ sessions' = UpdateSessions(sess1, t, u)
        /\ strays' = IF u.connection = "close" /\ u.loggedOut
                     THEN Unregister(sess1, str1, t) ELSE str1
        /\ qrCodes' = UpdateQrCodes(qrCodes, t, u)
        /\ creds' = UpdateCreds(sess1, creds, t, u)
        /\ pendingStart' = UpdatePending(sess1, t, u)
        /\ timers' = UpdateTimers(timers, t, u)
        /\ ev' = [Ev(UpdateOp(u), t, 0, CallsStartInline(u)) EXCEPT
                      !.qr = u.qr, !.stale = (src # "reg")]
        /\ UNCHANGED <<webhookUrl, hooks, variant, qrWait, pendingLogout, made>>

\* the deferred reconnect fires: startSession(instanceId) up to its await
TimerFire(t) ==
    /\ timers[t] > 0
    /\ CanStart(sessions, t)
    /\ timers' = [timers EXCEPT ![t] = @ - 1]
    /\ pendingStart' = PendAfterStart(sessions, t, "bg")
    /\ creds' = CredsAfterStart(sessions, creds, t)
    /\ ev' = Ev("timer", t, 0, FALSE)
    /\ UNCHANGED <<webhookUrl, hooks, variant, sessions, strays, qrCodes, qrWait, pendingLogout, made>>

\* ------------------------------------------------------------------ reset
CloseTransient == [qr |-> 0, connection |-> "close", loggedOut |-> FALSE]
CloseLoggedOut == [qr |-> 0, connection |-> "close", loggedOut |-> TRUE]

\* server.ts calls sock.end bare; part_000 and part_001 wrap it in try/catch
EndIsCaught == variant # "server"

\* server.ts wraps the folder's rmSync in try/catch; part_000 and part_001
\* call it bare
RmIsCaught == variant = "server"

\* /v1/instance/reset. endThrows: sock.end(undefined) throws; d: the value of
\* sock.destroyed once closed. A live sock that end() closes raises its close
\* event, with no error attached, inside the call. lands: a saveCreds write
\* that a live handle of the tenant began before the request (an fs.promises
\* writeFile, run off the main thread) creates its file while rmSync is
\* emptying the folder, so the folder cannot be removed and rmSync throws.
ResetWith(t, endThrows, d, lands) ==
    LET has == Has(sessions, t)
        closes == has /\ ~endThrows /\ sessions[t].conn \in LiveConn
        sess1 == IF closes
                 THEN [sessions EXCEPT ![t] = SockAfter(@, CloseTransient, d)]
                 ELSE sessions
    IN  /\ endThrows => has
        /\ d => (closes /\ variant = "server")
        /\ lands => /\ LiveHandles(t) > 0
                    /\ creds[Folder(t)] # "none"
                    /\ ~(endThrows /\ ~EndIsCaught)
        /\ IF endThrows /\ ~EndIsCaught
           THEN /\ ev' = Ev("reset", t, 0, TRUE)
                /\ UNCHANGED <<sessions, strays, qrCodes, creds, pendingStart, timers>>
           ELSE /\ closes =>
                       IF variant = "server" THEN CanStart(sess1, t)
                       ELSE Total(timers) < MaxTimers
                /\ pendingStart' = IF closes
                                   THEN UpdatePending(sess1, t, CloseTransient)
                                   ELSE pendingStart
                /\ timers' = IF closes
                             THEN UpdateTimers(timers, t, CloseTransient)
                             ELSE timers
                /\ sessions' = [sess1 EXCEPT ![t] = NoSock]
                /\ strays' = Unregister(sess1, strays, t)
                /\ qrCodes' = IF has THEN [qrCodes EXCEPT ![t] = 0] ELSE qrCodes
                /\ creds' = [creds EXCEPT ![Folder(t)] = IF lands THEN "saved" ELSE "none"]
                /\ ev' = Ev("reset", t, IF lands /\ ~RmIsCaught THEN 0 ELSE 200, has)
        /\ UNCHANGED <<webhookUrl, hooks, variant, qrWait, pendingLogout, made>>

Reset(t, endThrows, d) == ResetWith(t, endThrows, d, FALSE)

\* ----------------------------------------------------------------- logout
\* POST /v1/instance/logout (server.ts only) up to await sock.logout().
\* logoutThrows: the transport's logout rejects. A live sock that logs out
\* closes with reason loggedOut, which runs the connection.update handler.
LogoutRequest(t, logoutThrows, d) ==
    LET has == Has(sessions, t)
        closes == has /\ ~logoutThrows /\ sessions[t].conn \in LiveConn
        sess1 == IF closes
                 THEN [sessions EXCEPT ![t] = SockAfter(@, CloseLoggedOut, d)]
                 ELSE sessions
    IN  /\ variant = "server"
        /\ logoutThrows => has
        /\ d => closes
        /\ IF ~has
           THEN /\ ev' = Ev("logout", t, 200, FALSE)
                /\ UNCHANGED <<sessions, strays, qrCodes, creds, pendingLogout>>
           ELSE IF logoutThrows
           THEN /\ ev' = Ev("logout", t, 0, TRUE)
                /\ UNCHANGED <<sessions, strays, qrCodes, creds, pendingLogout>>
           ELSE /\ Total(pendingLogout) < MaxLogout
                /\ pendingLogout' = [pendingLogout EXCEPT ![t] = @ + 1]
                /\ sessions' = IF closes
                               THEN UpdateSessions(sess1, t, CloseLoggedOut)
                               ELSE sessions
                /\ qrCodes' = IF closes
                              THEN UpdateQrCodes(qrCodes, t, CloseLoggedOut)
                              ELSE qrCodes
                /\ creds' = IF closes
                            THEN UpdateCreds(sess1, creds, t, CloseLoggedOut)
                            ELSE creds
                /\ ev' = Ev("logout-call", t, 0, TRUE)
                /\ UNCHANGED strays
        /\ UNCHANGED <<webhookUrl, hooks, variant, pendingStart, timers, qrWait, made>>

\* the logout request after its await: the local cleanup and the answer
LogoutResume(t) ==
    /\ pendingLogout[t] > 0
    /\ pendingLogout' = [pendingLogout EXCEPT ![t] = @ - 1]
    /\ sessions' = [sessions EXCEPT ![t] = NoSock]
    /\ strays' = Unregister(sessions, strays, t)
    /\ qrCodes' = [qrCodes EXCEPT ![t] = 0]
    /\ creds' = [creds EXCEPT ![Folder(t)] = "none"]
    /\ ev' = Ev("logout", t, 200, TRUE)
    /\ UNCHANGED <<webhookUrl, hooks, variant, pendingStart, timers, qrWait, made>>

\* -------------------------------------------------------------- send-text
\* server.ts answers 503 when sock.user is unset; the other two do not look
SendChecksUser == variant = "server"

\* the status send-text answers before it touches the transport (0: it goes on)
SendGate(sess, t) ==
    IF ~Has(sess, t) THEN 404
    ELSE IF SendChecksUser /\ ~sess[t].user THEN 503
    ELSE 0

\* POST /v1/message/send-text. sendThrows: sock.sendMessage rejects, which a
\* sock that is not open always does
SendText(t, sendThrows) ==
    LET gate == SendGate(sessions, t)
    IN  /\ sendThrows => gate = 0
        /\ (gate = 0 /\ sessions[t].conn # "open") => sendThrows
        /\ ev' = IF gate # 0 THEN Ev("send-text", t, gate, FALSE)
                 ELSE Ev("send-text", t, IF sendThrows THEN 500 ELSE 200, TRUE)
        /\ UNCHANGED <<webhookUrl, hooks, variant, sessions, strays, qrCodes, creds, pendingStart,
                       timers, qrWait, pendingLogout, made>>

\* ----------------------------------------------------------------- status
\* connected: !!sock.user
Connected(sess, t) == Has(sess, t) /\ sess[t].user

\* a status route that starts a session for a tenant it does not know, as
\* the qr-code route does
StatusEnsuresSession(t) ==
    /\ CanStart(sessions, t)
    /\ pendingStart' = PendAfterStart(sessions, t, "bg")
    /\ creds' = CredsAfterStart(sessions, creds, t)
    /\ ev' = Ev("status", t, 200, Connected(sessions, t))
    /\ UNCHANGED <<webhookUrl, hooks, variant, sessions, strays, qrCodes,
                   timers, qrWait, pendingLogout, made>>

\* GET /v1/instance/status-instance
Status(t) ==
    /\ ev' = Ev("status", t, 200, Connected(sessions, t))
    /\ UNCHANGED <<webhookUrl, hooks, variant, sessions, strays, qrCodes, creds, pendingStart,
                   timers, qrWait, pendingLogout, made>>

\* ---------------------------------------------------------------- qr-code
\* GET /v1/instance/qr-code after its sleep: connected, the code, or not yet
QrRespond(t) ==
    /\ qrWait[t] > 0
    /\ qrWait' = [qrWait EXCEPT ![t] = @ - 1]
    /\ ev' = IF Connected(sessions, t) THEN Ev("qr-code", t, 200, TRUE)
             ELSE IF qrCodes[t] = 0 THEN Ev("qr-code", t, 404, FALSE)
             ELSE Ev("qr-code", t, 200, FALSE)
    /\ UNCHANGED <<webhookUrl, hooks, variant, sessions, strays, qrCodes, creds, pendingStart,
                   timers, pendingLogout, made>>

\* ----------------------------------------------------------- creds.update
\* a live handle raises creds.update: saveCreds writes into the tenant's
\* directory, which it does not create
CredsUpdate(t) ==
    /\ LiveHandles(t) > 0
    /\ creds[Folder(t)] = "dir"
    /\ creds' = [creds EXCEPT ![Folder(t)] = "saved"]
    /\ ev' = Ev("creds", t, 0, FALSE)
    /\ UNCHANGED <<webhookUrl, hooks, variant, sessions, strays, qrCodes, pendingStart, timers,
                   qrWait, pendingLogout, made>>

\* every handler and route, for requests and events of the instance ids in ids
NextOver(ids) ==
    \/ \E t \in ids : QrRequest(t)
    \/ \E t \in ids, c \in Callers : StartFinish(t, c)
    \/ \E t \in ids, src \in {"reg"} \cup LiveConn, u \in Updates, d \in BOOLEAN :
           ConnectionUpdate(t, src, u, d)
    \/ \E t \in ids : TimerFire(t)
    \/ \E t \in ids, endThrows \in BOOLEAN, d \in BOOLEAN : Reset(t, endThrows, d)
    \/ \E t \in ids, logoutThrows \in BOOLEAN, d \in BOOLEAN :
           LogoutRequest(t, logoutThrows, d)
    \/ \E t \in ids : LogoutResume(t)
    \/ \E t \in ids, sendThrows \in BOOLEAN : SendText(t, sendThrows)
    \/ \E t \in ids : Status(t)
    \/ \E t \in ids : QrRespond(t)
    \/ \E t \in ids : CredsUpdate(t)

Next == NextOver(Tenants)

Spec == Init /\ [][Next]_vars

\* -------------------------------------------------------- messages.upsert
PhoneJid == [user |-> "5511", server |-> "s.whatsapp.net"]
LidJid == [user |-> "77", server |-> "lid"]
MemberJid == [user |-> "5522", server |-> "s.whatsapp.net"]

\* msg.key.remoteJid and msg.key.participant of a message
PlainKey == [remoteJid |-> PhoneJid, participant |-> NoJid]
Keys == [remoteJid : {PhoneJid, LidJid}, participant : {NoJid, MemberJid}]

Msgs == [fromMe : BOOLEAN, text : BOOLEAN, key : {PlainKey}]
Batches == UNION {[1..n -> Msgs] : n \in 1..MaxBatch}

\* part_000 drops a message with no text before it posts (continue)
DropsEmpty == variant = "p0"

\* the loop passes over msg without posting it
Skipped(msg) == msg.fromMe \/ ~webhookUrl \/ (DropsEmpty /\ ~msg.text)

\* the loop runs on from msgs to the first message it posts
RECURSIVE ToPost(_)
ToPost(msgs) ==
    IF msgs = <<>> THEN <<>>
    ELSE IF Skipped(Head(msgs)) THEN ToPost(Tail(msgs))
    ELSE msgs

\* the handler runs from queue q up to its next await axios.post, or ends
HooksAfter(hk, t, q) ==
    IF ToPost(q) = <<>> THEN hk
    ELSE Append(hk, [id |-> t, rest |-> Tail(ToPost(q))])

\* jid.split('@')[0] and jid.includes('@lid')
LocalPart(jid) == jid.user
IsLid(jid) == jid.server = "lid"

\* the sender the payload carries: part_000 prefers the participant of a
\* lid message, server.ts takes remoteJid, part_001 sends no sender
Sender(key) ==
    CASE variant = "p0" ->
             IF IsLid(key.remoteJid) /\ key.participant # NoJid
             THEN LocalPart(key.participant)
             ELSE LocalPart(key.remoteJid)
      [] variant = "server" -> LocalPart(key.remoteJid)
      [] OTHER -> ""

HookEv(op, t, q) ==
    IF ToPost(q) = <<>> THEN Ev(op, t, 0, FALSE)
    ELSE [Ev("post", t, 0, Head(ToPost(q)).text) EXCEPT
             !.sender = Sender(Head(ToPost(q)).key),
             !.key = Head(ToPost(q)).key]

\* an open handle of tenant t raises messages.upsert
MessagesUpsert(t, type, msgs) ==
    /\ sessions[t].conn = "open" \/ strays[t]["open"] > 0
    /\ Len(hooks) < MaxHooks
    /\ hooks' = IF type = "notify" THEN HooksAfter(hooks, t, msgs) ELSE hooks
    /\ ev' = IF type = "notify" THEN HookEv("upsert", t, msgs)
             ELSE Ev("upsert", t, 0, FALSE)
    /\ UNCHANGED <<webhookUrl, variant, sessions, strays, qrCodes, creds,
                   pendingStart, timers, qrWait, pendingLogout, made>>

Without(hk, i) == [j \in 1..(Len(hk) - 1) |-> IF j < i THEN hk[j] ELSE hk[j + 1]]

\* the post of handler i resolves or rejects; the catch swallows a rejection
\* and the loop goes on with the rest of its batch
WebhookDone(i, ok) ==
    /\ i \in 1..Len(hooks)
    /\ hooks' = HooksAfter(Without(hooks, i), hooks[i].id, hooks[i].rest)
    /\ ev' = HookEv(IF ok THEN "posted" ELSE "post-failed", hooks[i].id, hooks[i].rest)
    /\ UNCHANGED <<webhookUrl, variant, sessions, strays, qrCodes, creds,
                   pendingStart, timers, qrWait, pendingLogout, made>>

\* the transport reports open on the registered handle of tenant t
Open(t) ==
    ConnectionUpdate(t, "reg", [qr |-> 0, connection |-> "open", loggedOut |-> FALSE], FALSE)

InitHook == InitSessions /\ webhookUrl \in BOOLEAN

NextHook ==
    \/ \E t \in Tenants : QrRequest(t)
    \/ \E t \in Tenants, c \in Callers : StartFinish(t, c)
    \/ \E t \in Tenants : Open(t)
    \/ \E t \in Tenants, type \in {"notify", "append"}, msgs \in Batches :
           MessagesUpsert(t, type, msgs)
    \/ \E i \in 1..MaxHooks, ok \in BOOLEAN : WebhookDone(i, ok)

SpecHook == InitHook /\ [][NextHook]_vars

\* ------------------------------------------------- reset during a save
\* The session lifecycle with resets that may overlap a credential write.
NextSave ==
    \/ \E t \in Tenants : QrRequest(t)
    \/ \E t \in Tenants, c \in Callers : StartFinish(t, c)
    \/ \E t \in Tenants, src \in {"reg"} \cup LiveConn, u \in Updates, d \in BOOLEAN :
           ConnectionUpdate(t, src, u, d)
    \/ \E t \in Tenants : TimerFire(t)
    \/ \E t \in Tenants : CredsUpdate(t)
    \/ \E t \in Tenants, endThrows \in BOOLEAN, d \in BOOLEAN, lands \in BOOLEAN :
           ResetWith(t, endThrows, d, lands)
    \/ \E t \in Tenants : QrRespond(t)

SpecSave == Init /\ [][NextSave]_vars

\* ------------------------------------------------------- pairing codes
\* The way to a connected session, with more than one pairing code.
NextQr ==
    \/ \E t \in Tenants : QrRequest(t)
    \/ \E t \in Tenants, c \in Callers : StartFinish(t, c)
    \/ \E t \in Tenants, src \in {"reg"} \cup LiveConn,
          u \in Updates \cup QrUpdates(MaxCodes), d \in BOOLEAN :
           ConnectionUpdate(t, src, u, d)
    \/ \E t \in Tenants : TimerFire(t)
    \/ \E t \in Tenants : QrRespond(t)

SpecQr == Init /\ [][NextQr]_vars

\* ---------------------------------------------------------- shared folder
\* Requests that name shop-1 with and without a trailing separator. The boot
\* loop takes its ids from readdirSync, so it restores shop-1 alone.
PathIds == {"shop-1", SlashId}

InitPath == InitOver(PathIds) /\ webhookUrl = TRUE

NextPath ==
    \/ \E t \in PathIds : QrRequest(t)
    \/ \E t \in PathIds, c \in Callers : StartFinish(t, c)
    \/ \E t \in PathIds, src \in {"reg"} \cup LiveConn, u \in Updates, d \in BOOLEAN :
           ConnectionUpdate(t, src, u, d)
    \/ \E t \in PathIds : TimerFire(t)
    \/ \E t \in PathIds : CredsUpdate(t)
    \/ \E t \in PathIds, endThrows \in BOOLEAN, d \in BOOLEAN : Reset(t, endThrows, d)
    \/ \E t \in PathIds : QrRespond(t)

SpecPath == InitPath /\ [][NextPath]_vars

\* -------------------------------------------------------- sender identity
\* inbound messages, one to an event, over every form of key
KeyedMsgs == [fromMe : {FALSE}, text : BOOLEAN, key : Keys]

NextSender ==
    \/ \E t \in Tenants : QrRequest(t)
    \/ \E t \in Tenants, c \in Callers : StartFinish(t, c)
    \/ \E t \in Tenants : Open(t)
    \/ \E t \in Tenants, msg \in KeyedMsgs : MessagesUpsert(t, "notify", <<msg>>)
    \/ \E i \in 1..MaxHooks, ok \in BOOLEAN : WebhookDone(i, ok)

SpecSender == Init /\ [][NextSender]_vars

\* ------------------------------------------------------- reconnect races
\* A server that starts with an empty auth_info_baileys: no session is
\* restored, so every startSession that is not a request's is a reconnect.
\* The run is cut down to the session lifecycle and may make one handle more.
InitRace == Init /\ \A t \in Tenants : creds[t] = "none"

NextRace ==
    \/ \E t \in Tenants : QrRequest(t)
    \/ \E t \in Tenants, c \in Callers : StartFinishUpTo(t, c, MaxRaceSocks)
    \/ \E t \in Tenants, src \in {"reg"} \cup LiveConn, u \in Updates, d \in BOOLEAN :
           ConnectionUpdate(t, src, u, d)
    \/ \E t \in Tenants : TimerFire(t)
    \/ \E t \in Tenants, endThrows \in BOOLEAN, d \in BOOLEAN : Reset(t, endThrows, d)
    \/ \E t \in Tenants : QrRespond(t)

SpecRace == InitRace /\ [][NextRace]_vars

\* ------------------------------------------------------- failing starts
\* The session lifecycle with startSession calls that may fail.
NextFail ==
    \/ \E t \in Tenants : QrRequest(t)
    \/ \E t \in Tenants, c \in Callers : StartFinish(t, c)
    \/ \E t \in Tenants, c \in Callers : StartFail(t, c)
    \/ \E t \in Tenants, src \in {"reg"} \cup LiveConn, u \in Updates, d \in BOOLEAN :
           ConnectionUpdate(t, src, u, d)
    \/ \E t \in Tenants : TimerFire(t)
    \/ \E t \in Tenants : QrRespond(t)

SpecFail == Init /\ [][NextFail]_vars

\* ------------------------------------------------------- reserved names
\* The auth folder is the root of a mounted volume, so a lost+found
\* directory may exist in it and requests may name it as instanceId.
ReservedDirs == {"lost+found"}

InitReserved == InitOver(ReservedDirs) /\ webhookUrl = TRUE

NextReserved == NextOver(ReservedDirs)

SpecReserved == InitReserved /\ [][NextReserved]_vars

\* ------------------------------------------------ requests with no id
Routes == {"status", "qr-code", "send-text", "reset", "logout"}

\* the id a request carries when it names no instanceId
NoId == ""

\* only server.ts has a logout route
HasRoute(op) == op = "logout" => variant = "server"

\* the status a route answers when instanceId is missing
NoIdCode(op) ==
    CASE op = "status" -> IF variant = "server" THEN 200 ELSE 400
      [] op = "qr-code" -> 400
      [] op = "send-text" -> 404
      [] op = "reset" -> 400
      [] op = "logout" -> 200

\* a request to route op that carries no instanceId: every route answers
\* before it reads or writes any state
NoIdRequest(op) ==
    /\ HasRoute(op)
    /\ ev' = Ev(op, NoId, NoIdCode(op), FALSE)
    /\ UNCHANGED <<webhookUrl, hooks, variant, sessions, strays, qrCodes, creds,
                   pendingStart, timers, qrWait, pendingLogout, made>>

NextNoId ==
    \/ \E op \in Routes : NoIdRequest(op)
    \/ \E t \in Tenants : QrRequest(t)
    \/ \E t \in Tenants, c \in Callers : StartFinish(t, c)
    \/ \E t \in Tenants : Open(t)

SpecNoId == Init /\ [][NextNoId]_vars

\* ================================================================ claims
Clean(sess, qr, cr, t) == sess[t] = NoSock /\ qr[t] = 0 /\ cr[t] = "none"

\* C1: two startSession calls for one tenant that overlap at their await
\* yield one transport handle: a call never invokes makeWASocket for a tenant
\* whose registered handle, put there by the other call, is live.
C1_ConcurrentStartsMakeOneHandle ==
    [][\A t \in Tenants :
          made'[t] > made[t] => sessions[t].conn \notin LiveConn]_vars

\* C2: every tenant has at most one live transport handle, and a startSession
\* call for a tenant whose registered session is live changes nothing.
C2_OneLiveHandlePerTenant ==
    \A t \in Tenants : LiveHandles(t) <= 1

\* C3: a close that is not a logout keeps the tenant's credentials and moves
\* the tenant toward Connecting: a reconnect is pending (a suspended
\* startSession or a timer) unless the registered handle is live already.
C3_TransientCloseReconnects ==
    [][\A t \in Tenants :
          (ev'.op = "close" /\ ev'.id = t) =>
              /\ creds[t] # "none" => creds'[t] # "none"
              /\ \/ timers'[t] > timers[t]
                 \/ pendingStart'[t]["bg"] > pendingStart[t]["bg"]
                 \/ sessions'[t].conn \in LiveConn]_vars

\* C4: a close with reason loggedOut leaves the tenant with no registry
\* entry, no pairing code and no credentials, and schedules no reconnect.
C4_LoggedOutCloseErases ==
    [][\A t \in Tenants :
          (ev'.op = "close-logout" /\ ev'.id = t) =>
              /\ Clean(sessions', qrCodes', creds', t)
              /\ timers' = timers
              /\ pendingStart' = pendingStart]_vars

\* C5: no tenant has a pairing code cached while its session is connected.
C5_NoPairingCodeWhileConnected ==
    \A t \in Tenants : ~(qrCodes[t] # 0 /\ sessions[t].conn = "open")

\* C6: send-text for a tenant whose session is registered but not connected
\* answers 503 and does not reach sock.sendMessage.
C6_SendWhileNotConnectedIs503 ==
    (ev.op = "send-text" /\ Has(sessions, ev.id) /\ sessions[ev.id].conn # "open")
        => (ev.code = 503 /\ ~ev.flag)

\* C7: a failed or pending webhook post never stops or delays the dispatch
\* of later inbound messages: no message that is to be posted waits in a
\* handler behind a post that has not come back.
C7_PostNeverHoldsBackMessages ==
    \A i \in 1..Len(hooks) : ToPost(hooks[i].rest) = <<>>

\* C8: reset of a tenant with no registry entry answers success and leaves
\* no registry entry, no pairing code and no credentials.
C8_ResetUnknownLeavesNoTrace ==
    [][\A t \in Tenants :
          (ev'.op = "reset" /\ ev'.id = t /\ ~Has(sessions, t)) =>
              (ev'.code = 200 /\ Clean(sessions', qrCodes', creds', t))]_vars

\* C9: reset in any state, also when sock.end throws, answers success and
\* leaves no registry entry, no pairing code and no credentials.
C9_ResetAlwaysCleans ==
    (ev.op = "reset") => (ev.code = 200 /\ Clean(sessions, qrCodes, creds, ev.id))

\* C10: a logout request for a registered tenant ends with the registry
\* entry and the pairing code removed and the credentials erased, whether
\* or not sock.logout() succeeded.
C10_LogoutCleansDespiteTransport ==
    (ev.op = "logout" /\ ev.flag) => Clean(sessions, qrCodes, creds, ev.id)

\* C11: a logout request that is answered leaves the tenant as a reset
\* does, whether or not the tenant was registered: no registry entry, no
\* pairing code and no credentials.
C11_LogoutCleansLikeReset ==
    (ev.op = "logout" /\ ev.code = 200) => Clean(sessions, qrCodes, creds, ev.id)

\* C12: a deferred reconnect that fires after a reset or logout has removed
\* the tenant's registry entry is a no-op: it starts no session and creates
\* no credential folder.
C12_SupersededReconnectIsNoOp ==
    [][\A t \in Tenants :
          (ev'.op = "timer" /\ ev'.id = t /\ ~Has(sessions, t)) =>
              (pendingStart' = pendingStart /\ creds' = creds)]_vars

\* C14: once a connected tenant's handle has closed, a new connection
\* attempt is on its way (a timer or a suspended startSession) for as long
\* as the closed handle is the registered one, so that the tenant can come
\* back to Connected.
C14_ClosedTenantHasReconnectPending ==
    \A t \in Tenants :
        (sessions[t].conn = "closed" /\ sessions[t].user) =>
            (timers[t] > 0 \/ pendingStart[t]["bg"] > 0)

\* C15: the status query answers connected: true exactly when the tenant's
\* session is Connected.
C15_StatusIsConnectedState ==
    (ev.op = "status") => (ev.flag <=> sessions[ev.id].conn = "open")

\* C16: a qr-code request for a tenant with no session starts one, and the
\* request answers connected: true when the tenant is Connected, else the
\* pairing code when one is cached, else 404 not ready; in particular it
\* never answers a code once the connected event has been processed.
C16_PairingAnswerOrder ==
    [][/\ (ev'.op = "qr-request" /\ ~Has(sessions, ev'.id)) =>
              pendingStart'[ev'.id]["qr"] > pendingStart[ev'.id]["qr"]
       /\ (ev'.op = "qr-code") =>
              IF sessions[ev'.id].conn = "open"
              THEN ev'.code = 200 /\ ev'.flag
              ELSE IF qrCodes[ev'.id] # 0
              THEN ev'.code = 200 /\ ~ev'.flag
              ELSE ev'.code = 404 /\ ~ev'.flag]_vars

\* C20: a message with no text is dropped before dispatch: every post to
\* the webhook carries a message that has text.
C20_EmptyMessageNeverPosted ==
    (ev.op = "post") => ev.flag

\* C13: a reconnect's startSession that resumes from its await while a
\* newer live handle is registered for the tenant is a no-op: it makes no
\* handle and leaves the registered one in place. (Under SpecRace every
\* "bg" call is a reconnect.)
C13_LateReconnectIsNoOp ==
    [][\A t \in Tenants :
          (pendingStart'[t]["bg"] < pendingStart[t]["bg"]
              /\ sessions[t].conn \in LiveConn) =>
                  (made' = made /\ sessions' = sessions)]_vars

\* C17: an instance id on the reserved-name blocklist is refused: no handle
\* is made for it, it gets no registry entry, no credential folder is
\* created for it, and the qr-code request that named it is answered with a
\* validation error (400), not with the not-ready answer.
C17_ReservedIdIsRefused ==
    \A t \in DOMAIN sessions \cap ReservedNames :
        /\ made[t] = 0
        /\ ~Has(sessions, t)
        /\ creds[t] # "dir"
        /\ (ev.op = "qr-code" /\ ev.id = t) => ev.code = 400

\* C19: a request to a tenant-scoped route (status, qr-code, send-text,
\* reset, logout) that carries no instance id is answered with a client
\* error (4xx), never with a success.
C19_MissingIdIsClientError ==
    (ev.op \in Routes /\ ev.id = NoId) => ev.code \in 400..499

\* C18: a startSession call that fails at credential loading or at the
\* transport factory registers nothing: the registry and the handles are as
\* before the call, and the request that awaited it does not go on to answer
\* as if a session existed.
C18_FailedStartRegistersNothing ==
    [][(ev'.op = "start-failed") =>
          /\ sessions' = sessions
          /\ strays' = strays
          /\ made' = made
          /\ qrWait' = qrWait
          /\ ev'.code = 0]_vars

C18_Witness ==
    /\ ev.op = "start-failed"
    /\ ~Has(sessions, ev.id)
    /\ creds[ev.id] = "dir"

\* C21: the sender posted to the webhook is the participant's number when
\* the message's remoteJid is a lid address and a participant is present,
\* and the number of remoteJid in every other case.
C21_SenderPrefersParticipantOfLid ==
    (ev.op = "post") =>
        ev.sender = IF ev.key.remoteJid.server = "lid" /\ ev.key.participant # NoJid
                    THEN ev.key.participant.user
                    ELSE ev.key.remoteJid.user

\* C22: the step that handles a transient close does not call startSession
\* and makes no handle: the reconnect is left to a timer and begins in a
\* later step.
C22_CloseStepDoesNotStartSession ==
    [][(ev'.op = "close") =>
          (~ev'.flag /\ pendingStart' = pendingStart /\ made' = made)]_vars

\* C23: a credential save that overlaps or follows a reset leaves nothing
\* behind: a reset that answers success has erased the tenant's folder, and
\* an erased folder comes back only in a step that calls startSession for
\* that tenant.
C23_ResetErasesDespiteSave ==
    [][\A t \in Tenants :
          /\ (ev'.op = "reset" /\ ev'.id = t /\ ev'.code = 200) => creds'[t] = "none"
          /\ (creds[t] = "none" /\ creds'[t] # "none") =>
                 (ev'.id = t /\ ev'.op \in {"qr-request", "timer", "close"})]_vars

\* C24: a tenant has a cached pairing code only while it has a registered
\* session that is awaiting pairing (connecting, not yet open and not
\* closed); a tenant with no registry entry has none.
C24_PairingCodeOnlyWhileAwaitingPairing ==
    \A t \in Tenants : qrCodes[t] # 0 => sessions[t].conn = "connecting"

\* C25: status and send-text are read-only for the session lifecycle: they
\* start no session, make no handle, create no credential folder and leave
\* registry and pairing cache as they are, for a known or an unknown
\* tenant; send-text for a tenant with no registry entry answers 404.
C25_StatusAndSendAreReadOnly ==
    [][(ev'.op \in {"status", "send-text"}) =>
          /\ sessions' = sessions
          /\ strays' = strays
          /\ made' = made
          /\ qrCodes' = qrCodes
          /\ creds' = creds
          /\ pendingStart' = pendingStart
          /\ timers' = timers
          /\ (ev'.op = "send-text" /\ ~Has(sessions, ev'.id)) =>
                 (ev'.code = 404 /\ ~ev'.flag)]_vars

C25_Witness ==
    /\ ev.op = "send-text"
    /\ ev.code = 404
    /\ ~Has(sessions, ev.id)
    /\ made[ev.id] = 0
    /\ creds[ev.id] = "none"
    /\ PendCount = 0

\* C26: a pairing-code event replaces the tenant's cached code: after the
\* event the cache holds the code the event carried, whatever it held
\* before, and the cached code of every other tenant is as it was.
C26_NewerPairingCodeSupersedes ==
    [][(ev'.op = "qr") =>
          /\ qrCodes'[ev'.id] = ev'.qr
          /\ \A t \in Tenants \ {ev'.id} : qrCodes'[t] = qrCodes[t]]_vars

C26_Witness ==
    /\ ev.op = "qr"
    /\ ev.qr = 2
    /\ qrCodes[ev.id] = 2
    /\ \E t \in Tenants \ {ev.id} : qrCodes[t] = 1

\* C27: a connection.update raised by a handle that is no longer the one
\* registered for its tenant changes neither the registry entry nor the
\* cached pairing code nor the credentials of the tenant.
C27_StaleHandleEventIsIgnored ==
    [][(ev'.op \in {"qr", "open", "close", "close-logout"} /\ ev'.stale) =>
          /\ sessions' = sessions
          /\ qrCodes' = qrCodes
          /\ creds' = creds]_vars

\* C28: a step taken for one instance id (a startSession call, a transport
\* event, a reconnect timer, a reset or a logout) leaves every other
\* instance id's registry entry, handles, cached pairing code and
\* credentials as they were.
C28_TenantsAreIsolated ==
    [][\A t \in DOMAIN sessions :
          t # ev'.id =>
              /\ sessions'[t] = sessions[t]
              /\ strays'[t] = strays[t]
              /\ made'[t] = made[t]
              /\ qrCodes'[t] = qrCodes[t]
              /\ creds'[Folder(t)] = creds[Folder(t)]]_vars

====
